---- MODULE Spec2Model ----
(***************************************************************************)
(* CruX (src/app.py): a Streamlit script that turns a YouTube lecture into *)
(* a cheat sheet.  Every user interaction reruns the script from the top:  *)
(* the animation is loaded, the API key is read, and, when the button was  *)
(* pressed, the handler runs transcript fetch, model call, PDF render and  *)
(* presentation in sequence.                                               *)
(*                                                                         *)
(* Strings are sequences of one-character strings; messages built with an  *)
(* f-string are sequences of their parts (the fixed text, then the         *)
(* interpolated exception text).  A Python value that may be None is a     *)
(* sequence of length at most one: Null is None, Some(v) is the value v.   *)
(***************************************************************************)
EXTENDS Naturals, Sequences, FiniteSets

VARIABLES
    pc,              \* position of the running script
    API_KEY,         \* TRUE iff st.secrets holds GEMINI_API_KEY
    youtube_url,     \* the text field
    generate_button, \* the button's value in this run
    triggered,       \* the handler body (line 134) was entered in this run
    calls,           \* outbound calls of this run, in order
    gvt,             \* locals of get_video_transcript at its return
    ret,             \* what get_video_transcript returned
    transcript,      \* shell local (line 140)
    cheat_sheet,     \* shell local (line 148)
    pdf_buffer,      \* shell local (line 153)
    status,          \* label of the st.status box
    shown,           \* what the page displays in this run
    caught,          \* the e of the except clause at line 170, if it ran
    uncaught         \* exception that escaped the script, if any

vars == <<pc, API_KEY, youtube_url, generate_button, triggered, calls, gvt, ret,
          transcript, cheat_sheet, pdf_buffer, status, shown, caught, uncaught>>

----------------------------------------------------------------------------
(* Bounds of the model *)

MaxPieces == 3
MaxTracks == 2
MaxChunks == 2

(* Program constant: the {11} of the pattern at line 94 *)
IdLen == 11

----------------------------------------------------------------------------
(* Values *)

Null == <<>>
Some(v) == <<v>>

Rep(c, n) == [i \in 1..n |-> c]

\* Characters of the model's alphabet that the class [0-9A-Za-z_-] accepts;
\* every other character ("/", "=", "?", ".", ":", " ") is outside it.
IdChars == {"a", "b", "v", "0", "_", "-"}

\* A run of class characters one short of an ID
ShortRun == Rep("a", IdLen - 4) \o <<"0", "_", "-">>

\* Pieces URLs are built from: the two prefixes (each holds a character
\* outside the class), a run one short of an ID, a whole "/"-prefixed ID and
\* a whole "v="-prefixed ID.
Fragments ==
    { <<"/">>, <<"v", "=">>, ShortRun,
      <<"/">> \o Rep("b", IdLen),
      <<"v", "=">> \o ShortRun \o <<"v">> }

RECURSIVE Flatten(_)
Flatten(ss) == IF ss = <<>> THEN <<>> ELSE Head(ss) \o Flatten(Tail(ss))

SeqsUpTo(S, n) == UNION { [1..k -> S] : k \in 0..n }

Urls == { Flatten(ps) : ps \in SeqsUpTo(Fragments, MaxPieces) }

ExcTexts == {"quota exceeded", "network down"}

ChunkTexts == { <<>>, <<"h", "i">> }

Chunks == [text : ChunkTexts]

\* A transcript track: its fetch raises exc, or returns the chunks.
Tracks ==
    [ok : {TRUE}, chunks : SeqsUpTo(Chunks, MaxChunks), exc : {Null}]
    \cup [ok : {FALSE}, chunks : {<<>>}, exc : {Some(e) : e \in ExcTexts}]

RECURSIVE TotalChunks(_)
TotalChunks(ts) ==
    IF ts = <<>> THEN 0 ELSE Len(Head(ts).chunks) + TotalChunks(Tail(ts))

\* Listings of at most MaxTracks tracks holding at most MaxChunks chunks in all
Listings == { ts \in SeqsUpTo(Tracks, MaxTracks) : TotalChunks(ts) <= MaxChunks }

\* The transcript service's behaviour for one call of list(video_id):
\* it raises exc, or returns the tracks.
Services ==
    [raises : {TRUE}, exc : {Some(e) : e \in ExcTexts}, tracks : {<<>>}]
    \cup [raises : {FALSE}, exc : {Null}, tracks : Listings]

Sheets == { <<>>, <<"#", "S">> }

----------------------------------------------------------------------------
(* re.search(r"(?:v=|\/)([0-9A-Za-z_-]{11}).*", youtube_url), line 94 *)

\* Where the capture group starts if the prefix alternation matches at p,
\* 0 if neither alternative matches there.
PrefixEnd(s, p) ==
    IF p + 1 <= Len(s) /\ s[p] = "v" /\ s[p + 1] = "=" THEN p + 2
    ELSE IF s[p] = "/" THEN p + 1
    ELSE 0

MatchAt(s, p) ==
    LET g == PrefixEnd(s, p)
    IN  /\ g # 0
        /\ g + IdLen - 1 <= Len(s)
        /\ \A i \in g..(g + IdLen - 1) : s[i] \in IdChars

RECURSIVE Scan(_, _)
Scan(s, p) ==
    IF p > Len(s) THEN Null
    ELSE IF MatchAt(s, p)
         THEN LET g == PrefixEnd(s, p) IN Some(SubSeq(s, g, g + IdLen - 1))
         ELSE Scan(s, p + 1)

\* Mutant: the "/" alternative is lost, only "v=" introduces an ID.
re_search_vonly(s) ==
    LET RECURSIVE F(_)
        F(p) == IF p > Len(s) THEN Null
                ELSE IF /\ p + 1 <= Len(s) /\ s[p] = "v" /\ s[p + 1] = "="
                        /\ p + IdLen + 1 <= Len(s)
                        /\ \A i \in (p + 2)..(p + IdLen + 1) : s[i] \in IdChars
                     THEN Some(SubSeq(s, p + 2, p + IdLen + 1))
                     ELSE F(p + 1)
    IN  F(1)

\* group(1) of the leftmost match, Null when there is no match
re_search(s) == Scan(s, 1)

----------------------------------------------------------------------------
(* get_video_transcript, lines 93-108 *)

InvalidInputMsg == <<"Could not find a valid YouTube Video ID.">>

\* Mutant: the exception text is dropped from the message.
NoCaptionsFound_generic(e) == <<"Error: No captions found at all. Details: ">>

NoCaptionsFound(e) == <<"Error: No captions found at all. Details: ", e>>

\* Mutant: the chunks are concatenated without the separator.
Join_nosep(chunks) == Flatten([i \in 1..Len(chunks) |-> chunks[i].text])

\* " ".join([chunk['text'] for chunk in raw_transcript]), line 105
RECURSIVE JoinFrom(_, _)
JoinFrom(chunks, i) ==
    IF i > Len(chunks) THEN <<>>
    ELSE IF i = 1 THEN chunks[1].text \o JoinFrom(chunks, 2)
    ELSE <<" ">> \o chunks[i].text \o JoinFrom(chunks, i + 1)

Join(chunks) == JoinFrom(chunks, 1)

Tuple(t, e) == [isTuple |-> TRUE, transcript |-> t, error |-> e]
\* a bare None (the function ran off its end)
NoneValue == [isTuple |-> FALSE, transcript |-> Null, error |-> Null]

NoFrame == [video_id |-> Null, listed |-> FALSE, transcript_list |-> <<>>,
            raw_transcript |-> Null, e |-> Null]

\* Mutant: the service is asked before the match is tested.
get_video_transcript_eager(url, svc) ==
    LET m == re_search(url) IN
    [ret   |-> IF m = Null THEN Tuple(Null, Some(InvalidInputMsg))
               ELSE Tuple(Some(<<>>), Null),
     calls |-> <<"ytt.list">>,
     frame |-> [NoFrame EXCEPT !.listed = TRUE]]

\* The result, the service calls made, and the locals at return, for the
\* URL and the behaviour svc of the transcript service during the call.
get_video_transcript(url, svc) ==
    LET m == re_search(url) IN
    IF m = Null
    THEN [ret |-> Tuple(Null, Some(InvalidInputMsg)), calls |-> <<>>, frame |-> NoFrame]
    ELSE LET f0 == [NoFrame EXCEPT !.video_id = m, !.listed = TRUE] IN
         IF svc.raises
         THEN [ret   |-> Tuple(Null, Some(NoCaptionsFound(svc.exc[1]))),
               calls |-> <<"ytt.list">>,
               frame |-> [f0 EXCEPT !.e = svc.exc]]
         ELSE LET f1 == [f0 EXCEPT !.transcript_list = svc.tracks] IN
              IF svc.tracks = <<>>
              THEN \* the loop body never runs; the function ends without return
                   [ret |-> NoneValue, calls |-> <<"ytt.list">>, frame |-> f1]
              ELSE LET t == svc.tracks[1] IN
                   IF t.ok
                   THEN [ret   |-> Tuple(Some(Join(t.chunks)), Null),
                         calls |-> <<"ytt.list", "fetch">>,
                         frame |-> [f1 EXCEPT !.raw_transcript = Some(t.chunks)]]
                   ELSE [ret   |-> Tuple(Null, Some(NoCaptionsFound(t.exc[1]))),
                         calls |-> <<"ytt.list", "fetch">>,
                         frame |-> [f1 EXCEPT !.e = t.exc]]

----------------------------------------------------------------------------
(* The page *)

NoShow == [warning |-> FALSE, error |-> Null, markdown |-> Null, download |-> Null]

AIError(e) == <<"AI Error: ", e>>

\* pdf.add_section(Section(cheat_sheet)); pdf.save_bytes(pdf_buffer):
\* the bytes of a one-section document holding the markdown
PdfBytes(md) == <<"%PDF">> \o md

\* Python truthiness of a value that is None or a string
Truthy(opt) == opt # Null /\ opt[1] # <<>>

Init ==
    /\ pc = "idle"
    /\ API_KEY \in BOOLEAN
    /\ youtube_url = <<>>
    /\ generate_button = FALSE
    /\ triggered = FALSE
    /\ calls = <<>>
    /\ gvt = NoFrame
    /\ ret = NoneValue
    /\ transcript = Null
    /\ cheat_sheet = Null
    /\ pdf_buffer = Null
    /\ status = "none"
    /\ shown = NoShow
    /\ caught = Null
    /\ uncaught = Null

RunEnded == pc \in {"idle", "done", "stopped", "aborted"}

\* The user edits the field or presses the button: the script reruns from
\* line 1 with a fresh page and no locals assigned yet.
Rerun ==
    /\ RunEnded
    /\ youtube_url' = <<>>
    /\ generate_button' = FALSE
    /\ pc' = "lottie"
    /\ triggered' = FALSE
    /\ calls' = <<>>
    /\ gvt' = NoFrame
    /\ ret' = NoneValue
    /\ transcript' = Null
    /\ cheat_sheet' = Null
    /\ pdf_buffer' = Null
    /\ status' = "none"
    /\ shown' = NoShow
    /\ caught' = Null
    /\ uncaught' = Null
    /\ UNCHANGED API_KEY

\* load_lottieurl, lines 55-62: requests.get returns (any status) or raises;
\* nothing catches the exception.
LoadLottie ==
    /\ pc = "lottie"
    /\ calls' = Append(calls, "requests.get")
    /\ \/ /\ pc' = "secrets"
          /\ UNCHANGED uncaught
       \/ /\ \E e \in ExcTexts : uncaught' = Some(e)
          /\ pc' = "aborted"
    /\ UNCHANGED <<API_KEY, caught, youtube_url, generate_button, triggered, gvt, ret,
                   transcript, cheat_sheet, pdf_buffer, status, shown>>

\* lines 86-90
LoadSecrets ==
    /\ pc = "secrets"
    /\ IF API_KEY
       THEN /\ pc' = "widgets"
            /\ UNCHANGED shown
       ELSE /\ pc' = "stopped"
            /\ shown' = [shown EXCEPT !.error = Some(<<"Secrets file not found.">>)]
    /\ UNCHANGED <<API_KEY, caught, youtube_url, generate_button, triggered, calls, gvt, ret,
                   transcript, cheat_sheet, pdf_buffer, status, uncaught>>

\* lines 130-132: the widgets return what the user entered and whether this
\* rerun comes from a press of the button
Widgets ==
    /\ pc = "widgets"
    /\ \E u \in Urls, b \in BOOLEAN :
          /\ youtube_url' = u
          /\ generate_button' = b
    /\ pc' = "handler"
    /\ UNCHANGED <<API_KEY, caught, triggered, calls, gvt, ret, transcript, cheat_sheet,
                   pdf_buffer, status, shown, uncaught>>

\* Mutant: the empty-field test is lost.
Handler_noguard ==
    /\ pc = "handler"
    /\ IF generate_button
       THEN /\ triggered' = TRUE
            /\ pc' = "fetch"
            /\ status' = "Initializing CruX..."
            /\ UNCHANGED shown
       ELSE /\ pc' = "done"
            /\ UNCHANGED <<triggered, shown, status>>
    /\ UNCHANGED <<API_KEY, caught, youtube_url, generate_button, calls, gvt, ret,
                   transcript, cheat_sheet, pdf_buffer, uncaught>>

\* lines 134-139
Handler ==
    /\ pc = "handler"
    /\ IF ~generate_button
       THEN /\ pc' = "done"
            /\ UNCHANGED <<triggered, shown, status>>
       ELSE /\ triggered' = TRUE
            /\ IF youtube_url = <<>>
               THEN /\ shown' = [shown EXCEPT !.warning = TRUE]
                    /\ pc' = "done"
                    /\ UNCHANGED status
               ELSE /\ pc' = "fetch"
                    /\ status' = "Initializing CruX..."
                    /\ UNCHANGED shown
    /\ UNCHANGED <<API_KEY, caught, youtube_url, generate_button, calls, gvt, ret,
                   transcript, cheat_sheet, pdf_buffer, uncaught>>

\* the call at line 140
GetTranscript ==
    /\ pc = "fetch"
    /\ \E svc \in Services :
          LET r == get_video_transcript(youtube_url, svc) IN
          /\ ret' = r.ret
          /\ gvt' = r.frame
          /\ calls' = calls \o r.calls
    /\ pc' = "unpack"
    /\ UNCHANGED <<API_KEY, caught, youtube_url, generate_button, triggered,
                   transcript, cheat_sheet, pdf_buffer, status, shown, uncaught>>

\* Mutant: the error branch does not stop the pipeline.
Unpack_goon ==
    /\ pc = "unpack"
    /\ ret.isTuple
    /\ transcript' = ret.transcript
    /\ pc' = "generate"
    /\ shown' = IF Truthy(ret.error) THEN [shown EXCEPT !.error = ret.error] ELSE shown
    /\ UNCHANGED <<API_KEY, caught, youtube_url, generate_button, triggered, calls, gvt, ret,
                   cheat_sheet, pdf_buffer, status, uncaught>>

\* the unpacking at line 140 and the branch at lines 142-146
Unpack ==
    /\ pc = "unpack"
    /\ IF ~ret.isTuple
       THEN \* TypeError: cannot unpack non-iterable NoneType object
            /\ uncaught' = Some("cannot unpack non-iterable NoneType object")
            /\ pc' = "aborted"
            /\ UNCHANGED <<transcript, status, shown>>
       ELSE /\ transcript' = ret.transcript
            /\ UNCHANGED uncaught
            /\ IF Truthy(ret.error)
               THEN /\ status' = "Extraction Failed"
                    /\ shown' = [shown EXCEPT !.error = ret.error]
                    /\ pc' = "done"
               ELSE /\ pc' = "generate"
                    /\ UNCHANGED <<status, shown>>
    /\ gvt' = NoFrame
    /\ UNCHANGED <<API_KEY, caught, youtube_url, generate_button, triggered, calls, ret,
                   cheat_sheet, pdf_buffer>>

\* Mutant: an exception of the model call is caught but the pipeline goes on
\* with an empty cheat sheet.
Generate_goon ==
    /\ pc = "generate"
    /\ calls' = Append(calls, "generate_content")
    /\ \/ /\ \E md \in Sheets : cheat_sheet' = Some(md)
          /\ UNCHANGED caught
       \/ /\ \E e \in ExcTexts : caught' = Some(e)
          /\ cheat_sheet' = Some(<<>>)
    /\ pc' = "render"
    /\ UNCHANGED <<API_KEY, youtube_url, generate_button, triggered, gvt, ret,
                   transcript, pdf_buffer, status, shown, uncaught>>

\* generate_cheat_sheet (lines 110-127) called at line 148; an exception
\* reaches the except clause at lines 170-172.
Generate ==
    /\ pc = "generate"
    /\ calls' = Append(calls, "generate_content")
    /\ \/ /\ \E md \in Sheets : cheat_sheet' = Some(md)
          /\ pc' = "render"
          /\ UNCHANGED <<status, shown, caught>>
       \/ /\ \E e \in ExcTexts :
                /\ caught' = Some(e)
                /\ shown' = [shown EXCEPT !.error = Some(AIError(e))]
          /\ status' = "AI Processing Failed"
          /\ pc' = "done"
          /\ UNCHANGED cheat_sheet
    /\ UNCHANGED <<API_KEY, youtube_url, generate_button, triggered, gvt, ret,
                   transcript, pdf_buffer, uncaught>>

\* Mutant: the PDF is rendered from the transcript.
Render_transcript ==
    /\ pc = "render"
    /\ calls' = Append(calls, "save_bytes")
    /\ pdf_buffer' = Some(PdfBytes(transcript[1]))
    /\ pc' = "present"
    /\ UNCHANGED <<API_KEY, youtube_url, generate_button, triggered, gvt, ret,
                   transcript, cheat_sheet, status, shown, caught, uncaught>>

\* lines 151-154; an exception reaches the except clause at lines 170-172
Render ==
    /\ pc = "render"
    /\ calls' = Append(calls, "save_bytes")
    /\ \/ /\ pdf_buffer' = Some(PdfBytes(cheat_sheet[1]))
          /\ pc' = "present"
          /\ UNCHANGED <<status, shown, caught>>
       \/ /\ \E e \in ExcTexts :
                /\ caught' = Some(e)
                /\ shown' = [shown EXCEPT !.error = Some(AIError(e))]
          /\ status' = "AI Processing Failed"
          /\ pc' = "done"
          /\ UNCHANGED pdf_buffer
    /\ UNCHANGED <<API_KEY, youtube_url, generate_button, triggered, gvt, ret,
                   transcript, cheat_sheet, uncaught>>

\* lines 156-169
Present ==
    /\ pc = "present"
    /\ status' = "Cheat Sheet Ready!"
    /\ shown' = [shown EXCEPT !.markdown = cheat_sheet, !.download = pdf_buffer]
    /\ pc' = "done"
    /\ UNCHANGED <<API_KEY, caught, youtube_url, generate_button, triggered, calls, gvt, ret,
                   transcript, cheat_sheet, pdf_buffer, uncaught>>

Next ==
    \/ Rerun
    \/ LoadLottie
    \/ LoadSecrets
    \/ Widgets
    \/ Handler
    \/ GetTranscript
    \/ Unpack
    \/ Generate
    \/ Render
    \/ Present

Spec == Init /\ [][Next]_vars

----------------------------------------------------------------------------
(* Properties *)

\* get_video_transcript has returned and line 140 is about to unpack its result
Returned == pc = "unpack"

Succeeded == ret.isTuple /\ ret.transcript # Null /\ ret.error = Null
Failed == ret.isTuple /\ ret.error # Null

Has(seq, x) == \E i \in 1..Len(seq) : seq[i] = x
Count(seq, x) == Cardinality({i \in 1..Len(seq) : seq[i] = x})
Pos(seq, x) == CHOOSE i \in 1..Len(seq) : seq[i] = x

NothingPresented == shown.markdown = Null /\ shown.download = Null

\* g is where 11 class characters start that "v=" or "/" immediately precedes
Occurs(s, g) ==
    /\ g >= 2
    /\ g + IdLen - 1 <= Len(s)
    /\ \/ s[g - 1] = "/"
       \/ g >= 3 /\ s[g - 2] = "v" /\ s[g - 1] = "="
    /\ \A i \in g..(g + IdLen - 1) : s[i] \in IdChars

Occurrences(s) == {g \in 1..Len(s) : Occurs(s, g)}
IdAt(s, g) == SubSeq(s, g, g + IdLen - 1)
FirstOf(G) == CHOOSE g \in G : \A h \in G : g <= h

\* C1: every call of get_video_transcript returns a pair (transcript, error)
\* with exactly one part non-null, and the unpacking at line 140 never fails.
C1_TwoPartResult ==
    /\ Returned =>
          /\ ret.isTuple
          /\ (ret.transcript = Null) # (ret.error = Null)
    /\ triggered => uncaught = Null

\* C2: when the URL holds "v=" or "/" immediately followed by 11 class
\* characters, the ID passed to the transcript service is the one at the first
\* such place; when it holds none, the result is InvalidInput and the service
\* is not asked.
C2_ExtractsFirstId ==
    Returned =>
        LET G == Occurrences(youtube_url) IN
        IF G = {}
        THEN /\ ret = Tuple(Null, Some(InvalidInputMsg))
             /\ ~gvt.listed
             /\ gvt.video_id = Null
        ELSE /\ gvt.listed
             /\ gvt.video_id = Some(IdAt(youtube_url, FirstOf(G)))

\* a URL with two occurrences holding different IDs was given and the service
\* was asked
C2_Witness ==
    /\ Returned
    /\ gvt.listed
    /\ \E g, h \in Occurrences(youtube_url) :
          IdAt(youtube_url, g) # IdAt(youtube_url, h)

\* C3: when the listing holds a track whose fetch succeeds, the result is the
\* text of the first such track, failing tracks before it being passed over.
C3_FirstFetchableTrack ==
    (Returned /\ gvt.listed /\ \E k \in 1..Len(gvt.transcript_list) :
                                    gvt.transcript_list[k].ok)
    => LET ts == gvt.transcript_list
           k  == CHOOSE i \in 1..Len(ts) :
                    ts[i].ok /\ \A j \in 1..(i - 1) : ~ts[j].ok
       IN  ret = Tuple(Some(Join(ts[k].chunks)), Null)

\* where chunk k starts in the joined text, counting from 0
RECURSIVE Offset(_, _)
Offset(cs, k) == IF k = 1 THEN 0 ELSE Offset(cs, k - 1) + Len(cs[k - 1].text) + 1

SpaceJoined(t, cs) ==
    /\ Len(t) = IF cs = <<>> THEN 0 ELSE Offset(cs, Len(cs)) + Len(cs[Len(cs)].text)
    /\ \A k \in 1..Len(cs) :
          /\ \A i \in 1..Len(cs[k].text) : t[Offset(cs, k) + i] = cs[k].text[i]
          /\ k > 1 => t[Offset(cs, k)] = " "

\* C4: a successful call returns the chunk texts of the fetched track in the
\* provider's order, each once, with one space between neighbours; no chunks
\* give the empty string.
C4_SpaceJoinedInOrder ==
    (Returned /\ Succeeded) =>
        /\ gvt.raw_transcript # Null
        /\ SpaceJoined(ret.transcript[1], gvt.raw_transcript[1])

\* a track of two different chunks was fetched
C4_Witness ==
    /\ Returned
    /\ Succeeded
    /\ Len(gvt.raw_transcript[1]) >= 2
    /\ gvt.raw_transcript[1][1] # gvt.raw_transcript[1][2]

\* C5: when the transcript provider returned an error, the shell displays
\* that error and stops: no model call, no render, nothing presented.
C5_ErrorStopsPipeline ==
    (triggered /\ Failed) =>
        /\ ~Has(calls, "generate_content")
        /\ ~Has(calls, "save_bytes")
        /\ NothingPresented
        /\ cheat_sheet = Null /\ pdf_buffer = Null
        /\ \/ Returned
           \/ pc = "done" /\ shown.error = ret.error

\* the provider's error is on the page and the run is over
C5_Witness == pc = "done" /\ triggered /\ Failed /\ shown.error = ret.error

ModelCallRaised ==
    caught # Null /\ calls # <<>> /\ calls[Len(calls)] = "generate_content"

\* C6: when the model call raises, the run halts there: no render, nothing
\* presented, and the page shows an AI-error message holding the exception's
\* text.
C6_ModelFailureHalts ==
    ModelCallRaised =>
        /\ pc = "done"
        /\ ~Has(calls, "save_bytes")
        /\ pdf_buffer = Null
        /\ NothingPresented
        /\ shown.error # Null
        /\ shown.error[1][1] = "AI Error: "
        /\ Has(shown.error[1], caught[1])

\* the model call raised in a run whose transcript was fetched
C6_Witness == ModelCallRaised /\ Succeeded /\ pc = "done"

\* C7: a trigger with an empty field gives the warning and nothing else: no
\* transcript, model or render call, no error, nothing presented.
C7_EmptyUrlOnlyWarns ==
    (triggered /\ youtube_url = <<>>) =>
        /\ shown.warning
        /\ pc = "done"
        /\ ~Has(calls, "ytt.list") /\ ~Has(calls, "fetch")
        /\ ~Has(calls, "generate_content") /\ ~Has(calls, "save_bytes")
        /\ shown.error = Null
        /\ NothingPresented

\* the button was pressed with an empty field
C7_Witness == triggered /\ youtube_url = <<>> /\ shown.warning

NoIdTrigger ==
    triggered /\ youtube_url # <<>> /\ Occurrences(youtube_url) = {}

\* C8 as stated: a trigger with a non-empty URL holding no ID pattern makes
\* no outbound call at all during the run.
C8_NoOutboundCalls == NoIdTrigger => calls = <<>>

\* C8 amended: such a trigger halts with InvalidInput and makes no
\* transcript-service call and no model call; the only outbound request of
\* the run is the animation fetch every script run starts with.
C8_OnlyAnimationFetch ==
    NoIdTrigger =>
        /\ calls = <<"requests.get">>
        /\ pc \in {"fetch", "unpack", "done"}
        /\ pc \in {"unpack", "done"} => ret = Tuple(Null, Some(InvalidInputMsg))
        /\ pc = "done" => shown.error = Some(InvalidInputMsg) /\ NothingPresented

\* the run of such a trigger is over with the InvalidInput message shown
C8_Witness == NoIdTrigger /\ pc = "done" /\ shown.error = Some(InvalidInputMsg)

\* C9: an exception raised by the listing or by a track's fetch is returned
\* as (null, error), the error being the NoCaptionsFound text followed by the
\* exception's text; no exception of the service escapes.
C9_ServiceExceptionReturned ==
    /\ (Returned /\ gvt.e # Null) =>
          /\ ret.isTuple
          /\ ret.transcript = Null
          /\ ret.error # Null
          /\ ret.error[1][1] = "Error: No captions found at all. Details: "
          /\ Len(ret.error[1]) = 2
          /\ ret.error[1][2] = gvt.e[1]
    /\ (triggered /\ uncaught # Null) => uncaught[1] \notin ExcTexts

\* the fetch of a listed track raised
C9_Witness == Returned /\ gvt.e # Null /\ gvt.transcript_list # <<>>

Steps == <<"ytt.list", "fetch", "generate_content", "save_bytes">>

\* C10: transcript fetch, model call and render run in that order, each at
\* most once and each only after the one before succeeded; the cheat sheet
\* and the download appear only when all three succeeded, and the download
\* is the PDF of the cheat sheet shown.
C10_OrderedSingleShot ==
    /\ \A i \in 1..Len(Steps) : Count(calls, Steps[i]) <= 1
    /\ \A i, j \in 1..Len(Steps) :
          (i < j /\ Has(calls, Steps[j]) /\ Has(calls, Steps[i]))
             => Pos(calls, Steps[i]) < Pos(calls, Steps[j])
    /\ Has(calls, "generate_content") =>
          Succeeded /\ Has(calls, "fetch") /\ transcript = ret.transcript
    /\ Has(calls, "save_bytes") =>
          Has(calls, "generate_content") /\ cheat_sheet # Null
    /\ ~NothingPresented =>
          /\ Has(calls, "save_bytes") /\ pdf_buffer # Null /\ caught = Null
          /\ shown.markdown = cheat_sheet
          /\ shown.download = Some(PdfBytes(shown.markdown[1]))

\* a run that presented the cheat sheet and the download
C10_Witness == pc = "done" /\ shown.markdown # Null /\ shown.download # Null

====
